---- MODULE Spec2Model ----
(***************************************************************************)
(* RollbackStateManager (src/src/lib.rs): a frame-indexed input ledger, a  *)
(* checkpoint that bounds how far back a rollback reaches, and the replay  *)
(* that re-derives the current frame's state from the checkpoint.          *)
(*                                                                         *)
(* The manager is generic over Input and State and takes the update        *)
(* function per call.  The model instantiates Input with small naturals    *)
(* and State with a record of two components: `value`, the u64 running sum *)
(* of the repository's test update function, and `fed`, the sequence of    *)
(* input maps the update function has been called with, in call order.     *)
(***************************************************************************)
EXTENDS Integers, Sequences, FiniteSets, TLC

\* ------------------------------------------------------------------ bounds
\* Greatest current_frame_index the exploration of Spec reaches.
MaxFrame == 3
\* Greatest max_history (rollback window) Spec constructs a manager with.
MaxHistory == 2
\* Greatest number of handle_input calls in one behaviour of Spec.
MaxCalls == 2
\* Greatest number of handle_input calls in one behaviour of SpecLoaded.
LoadedCalls == 2
\* Greatest frame a handle_input call of SpecLoaded names.
LoadedFrame == 3
\* Greatest current_frame_index the exploration of SpecLoaded reaches.
LoadedTicks == 6
\* Greatest current_frame_index, and greatest frame named, in SpecPair.
PairFrame == 2
\* Greatest max_history SpecPair constructs its two managers with.
PairHistory == 1
\* Greatest number of submissions the two managers of SpecPair are sent.
PairCalls == 2

\* Greatest current_frame_index, and greatest frame named, in SpecRewrite.
RewriteFrame == 2
\* Greatest max_history SpecRewrite constructs a manager with.
RewriteHistory == 1
\* Greatest number of handle_input calls in one behaviour of SpecRewrite.
RewriteCalls == 3

\* The two participant ids of the test module (lazy_static P1ID, P2ID).
Participants == {"P1ID", "P2ID"}
\* The input values of the test ProgressFrame_PastOldestFrame_PreservesInput.
Inputs == {0, 1}
\* The input values of the other two tests.
LoadedInputs == {0, 1, 2}
\* The initial states the test module constructs managers with.
InitialStates == {0, 1}
\* The rollback windows the test module constructs managers with.
LoadedWindows == {3, 4}
\* Frames a handle_input call of Spec may name: past, current and future.
Frames == 0 .. MaxFrame

VARIABLES
    max_history,          \* field max_history
    oldest_frame_index,   \* field oldest_frame_index
    current_frame_index,  \* field current_frame_index
    newest_frame_index,   \* field newest_frame_index
    stored_state,         \* field stored_state (the checkpoint)
    current_frame_state,  \* field current_frame_state (the cached replay)
    recorded_inputs,      \* field recorded_inputs: frame -> (id -> input)
    initial_state,        \* history: the initial_state argument of new
    submitted,            \* history: accepted submissions, last write per pair
    late,                 \* history: pairs accepted for an elapsed frame since the last tick
    reconciled,           \* history: the value of late the last progress_frame call found
    last_call,            \* history: the last call, its arguments and its return value
    calls,                \* history: number of handle_input calls so far
    peer                  \* a second manager, constructed with the same arguments

manager == << max_history, oldest_frame_index, current_frame_index,
              newest_frame_index, stored_state, current_frame_state,
              recorded_inputs >>

vars == << max_history, oldest_frame_index, current_frame_index,
           newest_frame_index, stored_state, current_frame_state,
           recorded_inputs, initial_state, submitted, late, reconciled,
           last_call, calls, peer >>

\* Every variable but peer.
first == << max_history, oldest_frame_index, current_frame_index,
            newest_frame_index, stored_state, current_frame_state,
            recorded_inputs, initial_state, submitted, late, reconciled,
            last_call, calls >>

\* ------------------------------------------------------------ pure helpers
\* HashMap::new()
EmptyMap == << >>

\* HashMap::insert(key, value): insert or overwrite one key.
MapInsert(map, key, value) ==
    [k \in DOMAIN map \cup {key} |-> IF k = key THEN value ELSE map[k]]

\* The test module's update: state plus every value of the resolved inputs.
RECURSIVE SumValues(_, _)
SumValues(inputs, ids) ==
    IF ids = {} THEN 0
    ELSE LET id == CHOOSE x \in ids : TRUE
         IN  inputs[id] + SumValues(inputs, ids \ {id})

\* One call of the update function: the running sum of the test module, and
\* the record of the inputs the call received.
update(inputs, state) ==
    [value |-> state.value + SumValues(inputs, DOMAIN inputs),
     fed   |-> Append(state.fed, inputs)]

\* The State a manager is constructed with.
NewState(initial) == [value |-> initial, fed |-> << >>]

\* get_frame_inputs, lines 61-69: walk previous_index from index down to
\* oldest, keeping for each id the first entry met.
RECURSIVE CollectInputs(_, _, _, _)
CollectInputs(rec, oldest, previous_index, inputs) ==
    IF previous_index < oldest THEN inputs
    ELSE LET merged ==
                 IF previous_index \in DOMAIN rec
                 THEN [id \in DOMAIN inputs \cup DOMAIN rec[previous_index] |->
                          IF id \in DOMAIN inputs THEN inputs[id]
                          ELSE rec[previous_index][id]]
                 ELSE inputs
         IN  IF previous_index = 0 THEN merged
             ELSE CollectInputs(rec, oldest, previous_index - 1, merged)

\* A get_frame_inputs whose loop lacks the contains_key test of line 64: an
\* older entry overwrites the newer one already collected.
RECURSIVE CollectInputsOverwriting(_, _, _, _)
CollectInputsOverwriting(rec, oldest, previous_index, inputs) ==
    IF previous_index < oldest THEN inputs
    ELSE LET merged ==
                 IF previous_index \in DOMAIN rec
                 THEN [id \in DOMAIN inputs \cup DOMAIN rec[previous_index] |->
                          IF id \in DOMAIN rec[previous_index]
                          THEN rec[previous_index][id]
                          ELSE inputs[id]]
                 ELSE inputs
         IN  IF previous_index = 0 THEN merged
             ELSE CollectInputsOverwriting(rec, oldest, previous_index - 1, merged)

GetFrameInputsOverwriting(rec, oldest, index) ==
    CollectInputsOverwriting(rec, oldest, index, EmptyMap)

\* A get_frame_inputs that reads the entry of frame index alone.
GetFrameInputsWithoutHold(rec, oldest, index) ==
    IF index \in DOMAIN rec THEN rec[index] ELSE EmptyMap

\* A get_frame_inputs whose range ends one frame late (index + 2).
GetFrameInputsReadingAhead(rec, oldest, index) ==
    CollectInputs(rec, oldest, index + 1, EmptyMap)

\* get_frame_inputs(index) on a manager with ledger rec and oldest frame oldest.
GetFrameInputs(rec, oldest, index) == CollectInputs(rec, oldest, index, EmptyMap)

get_frame_inputs(index) ==
    GetFrameInputs(recorded_inputs, oldest_frame_index, index)

\* The loop `for i in from .. to + 1 { state = update(get_frame_inputs(i), state) }`.
RECURSIVE FoldFrames(_, _, _, _, _)
FoldFrames(rec, oldest, state, from, to) ==
    IF from > to THEN state
    ELSE FoldFrames(rec, oldest,
                    update(GetFrameInputs(rec, oldest, from), state),
                    from + 1, to)

\* A compute_frame_state whose range is oldest .. index, without the + 1.
ComputeFrameStateExclusive(rec, oldest, stored, index) ==
    FoldFrames(rec, oldest, stored, oldest, index - 1)

\* A compute_frame_state that does not replay: it applies the new frame to
\* the cached current_frame_state.
ComputeFrameStateIncremental(rec, oldest, stored, index) ==
    update(GetFrameInputs(rec, oldest, index), current_frame_state)

\* compute_frame_state(index): from stored_state, frames oldest ..= index.
ComputeFrameState(rec, oldest, stored, index) ==
    FoldFrames(rec, oldest, stored, oldest, index)

\* A line 90 computed from the frame index before its increment.
MaxOldestFrameLagging(current, history) ==
    IF current - 1 >= history THEN current - 1 - history ELSE 0

\* A line 90 whose fallback is the frame index itself: unwrap_or(current).
MaxOldestFrameFallbackCurrent(current, history) ==
    IF current >= history THEN current - history ELSE current

\* progress_frame, line 90: current_frame_index.checked_sub(max_history).unwrap_or(0)
MaxOldestFrame(current, history) ==
    IF current >= history THEN current - history ELSE 0

\* A checkpoint fold that starts one frame late: the oldest frame is dropped
\* from the window without having been applied.
CompactStateSkipping(rec, oldest, stored, max_oldest) ==
    FoldFrames(rec, oldest, stored, oldest + 1, max_oldest - 1)

\* A checkpoint fold whose range includes the new oldest frame, which the
\* replay applies again.
CompactStateInclusive(rec, oldest, stored, max_oldest) ==
    FoldFrames(rec, oldest, stored, oldest, max_oldest)

\* progress_frame, lines 94-98: the new checkpoint, frames oldest .. max_oldest - 1.
CompactState(rec, oldest, stored, max_oldest) ==
    FoldFrames(rec, oldest, stored, oldest, max_oldest - 1)

\* A progress_frame without line 100.
ReResolveSkipped(rec, oldest, max_oldest) == rec

\* A progress_frame with lines 100 and 101 exchanged: the inputs are
\* resolved after oldest_frame_index has advanced.
ReResolveAfterAdvance(rec, oldest, max_oldest) ==
    MapInsert(rec, max_oldest, GetFrameInputs(rec, max_oldest, max_oldest))

\* A progress_frame that, after line 100, drops the frames that left the window.
ReResolvePruning(rec, oldest, max_oldest) ==
    LET kept == MapInsert(rec, max_oldest, GetFrameInputs(rec, oldest, max_oldest))
    IN  [f \in {g \in DOMAIN kept : g >= max_oldest} |-> kept[f]]

\* progress_frame, line 100: the entry at the new oldest frame is replaced by
\* the inputs resolved there, still against the previous oldest frame.
ReResolve(rec, oldest, max_oldest) ==
    MapInsert(rec, max_oldest, GetFrameInputs(rec, oldest, max_oldest))

\* A line 111 that also rejects the oldest frame itself.
TooOldInclusive(frame, oldest) == frame <= oldest

\* A line 111 that still accepts the frame just folded into the checkpoint.
TooOldLenient(frame, oldest) == frame + 1 < oldest

\* handle_input, line 111
TooOld(frame, oldest) == frame < oldest

\* A handle_input that replaces the whole map of the frame.
InsertInputReplacingFrame(rec, frame, id, input) ==
    MapInsert(rec, frame, MapInsert(EmptyMap, id, input))

\* A handle_input that keeps the first input written for a pair.
InsertInputKeepingFirst(rec, frame, id, input) ==
    IF frame \in DOMAIN rec /\ id \in DOMAIN rec[frame] THEN rec
    ELSE MapInsert(rec, frame,
                   MapInsert(IF frame \in DOMAIN rec THEN rec[frame] ELSE EmptyMap,
                             id, input))

\* handle_input, lines 118-119: entry(frame).or_insert(HashMap::new()).insert(id, input)
InsertInput(rec, frame, id, input) ==
    MapInsert(rec, frame,
              MapInsert(IF frame \in DOMAIN rec THEN rec[frame] ELSE EmptyMap,
                        id, input))

\* A handle_input that writes the ledger before it tests the frame.
HandleInputLedgerUnchecked(rec, oldest, frame, id, input) ==
    MapInsert(rec, frame,
              MapInsert(IF frame \in DOMAIN rec THEN rec[frame] ELSE EmptyMap,
                        id, input))

\* handle_input: the ledger after the call.
HandleInputLedger(rec, oldest, frame, id, input) ==
    IF TooOld(frame, oldest) THEN rec ELSE InsertInput(rec, frame, id, input)

\* handle_input: the value returned.
HandleInputResult(oldest, frame) ==
    IF TooOld(frame, oldest)
    THEN [tag |-> "InputTooOld", input_frame |-> frame, oldest_valid_frame |-> oldest]
    ELSE [tag |-> "Ok"]

\* -------------------------------------------------------------- operations
\* RollbackStateManager::new(initial, max_rollback)
New(initial, max_rollback) ==
    /\ max_history = max_rollback
    /\ oldest_frame_index = 0
    /\ current_frame_index = 0
    /\ newest_frame_index = 0
    /\ stored_state = NewState(initial)
    /\ current_frame_state = NewState(initial)
    /\ recorded_inputs = EmptyMap
    /\ initial_state = initial
    /\ submitted = EmptyMap
    /\ late = {}
    /\ reconciled = {}
    /\ last_call = [op |-> "new"]
    /\ calls = 0

\* A handle_input that records the greatest frame it has accepted an input for
\* in newest_frame_index.
HandleInputTrackingNewest(frame, id, input) ==
    LET result == HandleInputResult(oldest_frame_index, frame)
        pair   == [frame |-> frame, id |-> id]
    IN  /\ recorded_inputs' =
               HandleInputLedger(recorded_inputs, oldest_frame_index, frame, id, input)
        /\ newest_frame_index' =
               IF result.tag = "Ok" /\ frame > newest_frame_index
               THEN frame ELSE newest_frame_index
        /\ last_call' = [op |-> "handle_input", frame |-> frame, id |-> id,
                         input |-> input, result |-> result]
        /\ submitted' = IF result.tag = "Ok"
                        THEN InsertInput(submitted, frame, id, input)
                        ELSE submitted
        /\ late' = IF result.tag = "Ok" /\ frame <= current_frame_index
                   THEN late \cup {pair}
                   ELSE late
        /\ calls' = calls + 1
        /\ UNCHANGED << max_history, oldest_frame_index, current_frame_index,
                        stored_state, current_frame_state,
                        initial_state, reconciled >>

\* handle_input(frame, id, input)
HandleInput(frame, id, input) ==
    LET result == HandleInputResult(oldest_frame_index, frame)
        pair   == [frame |-> frame, id |-> id]
    IN  /\ recorded_inputs' =
               HandleInputLedger(recorded_inputs, oldest_frame_index, frame, id, input)
        /\ last_call' = [op |-> "handle_input", frame |-> frame, id |-> id,
                         input |-> input, result |-> result]
        /\ submitted' = IF result.tag = "Ok"
                        THEN InsertInput(submitted, frame, id, input)
                        ELSE submitted
        /\ late' = IF result.tag = "Ok" /\ frame <= current_frame_index
                   THEN late \cup {pair}
                   ELSE late
        /\ calls' = calls + 1
        /\ UNCHANGED << max_history, oldest_frame_index, current_frame_index,
                        newest_frame_index, stored_state, current_frame_state,
                        initial_state, reconciled >>

\* progress_frame(update)
ProgressFrame ==
    LET current    == current_frame_index + 1
        max_oldest == MaxOldestFrame(current, max_history)
        compact    == oldest_frame_index < max_oldest
        rec        == IF compact
                      THEN ReResolve(recorded_inputs, oldest_frame_index, max_oldest)
                      ELSE recorded_inputs
        oldest     == IF compact THEN max_oldest ELSE oldest_frame_index
        stored     == IF compact
                      THEN CompactState(recorded_inputs, oldest_frame_index,
                                        stored_state, max_oldest)
                      ELSE stored_state
    IN  /\ current_frame_index' = current
        /\ recorded_inputs' = rec
        /\ oldest_frame_index' = oldest
        /\ stored_state' = stored
        /\ current_frame_state' = ComputeFrameState(rec, oldest, stored, current)
        /\ reconciled' = late
        /\ late' = {}
        /\ last_call' = [op |-> "progress_frame"]
        /\ UNCHANGED << max_history, newest_frame_index, initial_state,
                        submitted, calls >>

\* The second manager is a record of the same fields (max_history is the
\* first manager's), with its own history: submitted as above, arrival (the
\* current_frame_index at which each accepted submission arrived), calls,
\* fresh (no handle_input call since its last progress_frame call), and pool
\* (the submissions both managers are sent in the course of a behaviour).
PeerNew(initial) ==
    [oldest_frame_index  |-> 0,
     current_frame_index |-> 0,
     newest_frame_index  |-> 0,
     stored_state        |-> NewState(initial),
     current_frame_state |-> NewState(initial),
     recorded_inputs     |-> EmptyMap,
     submitted           |-> EmptyMap,
     arrival             |-> EmptyMap,
     calls               |-> 0,
     fresh               |-> FALSE,
     pool                |-> {}]

\* handle_input(frame, id, input) on the second manager.
PeerHandleInput(p, frame, id, input) ==
    LET ok == HandleInputResult(p.oldest_frame_index, frame).tag = "Ok"
    IN  [p EXCEPT
            !.recorded_inputs =
                HandleInputLedger(@, p.oldest_frame_index, frame, id, input),
            !.submitted = IF ok THEN InsertInput(@, frame, id, input) ELSE @,
            !.arrival = IF ok THEN InsertInput(@, frame, id, p.current_frame_index)
                        ELSE @,
            !.calls = @ + 1,
            !.fresh = FALSE]

\* progress_frame(update) on the second manager.
PeerProgressFrame(p, history) ==
    LET current    == p.current_frame_index + 1
        max_oldest == MaxOldestFrame(current, history)
        compact    == p.oldest_frame_index < max_oldest
        rec        == IF compact
                      THEN ReResolve(p.recorded_inputs, p.oldest_frame_index, max_oldest)
                      ELSE p.recorded_inputs
        oldest     == IF compact THEN max_oldest ELSE p.oldest_frame_index
        stored     == IF compact
                      THEN CompactState(p.recorded_inputs, p.oldest_frame_index,
                                        p.stored_state, max_oldest)
                      ELSE p.stored_state
    IN  [p EXCEPT
            !.current_frame_index = current,
            !.recorded_inputs = rec,
            !.oldest_frame_index = oldest,
            !.stored_state = stored,
            !.current_frame_state = ComputeFrameState(rec, oldest, stored, current),
            !.fresh = TRUE]

\* ---------------------------------------------------------- specifications
Init ==
    \E initial \in InitialStates, max_rollback \in 0 .. MaxHistory :
        New(initial, max_rollback) /\ peer = PeerNew(initial)

Submit ==
    /\ calls < MaxCalls
    /\ \E frame \in Frames, id \in Participants, input \in Inputs :
           HandleInput(frame, id, input)
    /\ UNCHANGED peer

Tick ==
    /\ current_frame_index < MaxFrame
    /\ ProgressFrame
    /\ UNCHANGED peer

Next == Submit \/ Tick

Spec == Init /\ [][Next]_vars

\* The shape of the repository's tests: a manager with one of the tests'
\* windows receives every submission before its first progress_frame call.
InitLoaded ==
    \E initial \in InitialStates, max_rollback \in LoadedWindows :
        New(initial, max_rollback) /\ peer = PeerNew(initial)

Load ==
    /\ current_frame_index = 0
    /\ calls < LoadedCalls
    /\ \E frame \in 0 .. LoadedFrame, id \in Participants, input \in LoadedInputs :
           HandleInput(frame, id, input)
    /\ UNCHANGED peer

TickLoaded ==
    /\ current_frame_index < LoadedTicks
    /\ ProgressFrame
    /\ UNCHANGED peer

NextLoaded == Load \/ TickLoaded

SpecLoaded == InitLoaded /\ [][NextLoaded]_vars

\* A manager that receives up to three submissions between its
\* progress_frame calls: enough for a pair to be written twice while another
\* entry, of the other participant or at another frame, is in the ledger.
InitRewrite ==
    \E initial \in InitialStates, max_rollback \in 0 .. RewriteHistory :
        New(initial, max_rollback) /\ peer = PeerNew(initial)

SubmitRewrite ==
    /\ calls < RewriteCalls
    /\ \E frame \in 0 .. RewriteFrame, id \in Participants, input \in Inputs :
           HandleInput(frame, id, input)
    /\ UNCHANGED peer

TickRewrite ==
    /\ current_frame_index < RewriteFrame
    /\ ProgressFrame
    /\ UNCHANGED peer

NextRewrite == SubmitRewrite \/ TickRewrite

SpecRewrite == InitRewrite /\ [][NextRewrite]_vars

\* Two managers constructed with the same arguments are sent the same
\* submissions, at most one per frame and participant, each manager in an
\* order and at moments of its own; the two are ticked together, so that
\* after every tick both have made the same number of progress_frame calls.
PairInputs == {1}
PairInitialStates == {0}

PairSubmissions ==
    [frame : 0 .. PairFrame, id : Participants, input : PairInputs]

PairPools ==
    {S \in SUBSET PairSubmissions :
        /\ Cardinality(S) <= PairCalls
        /\ \A x, y \in S : (x.frame = y.frame /\ x.id = y.id) => x = y}

InitPair ==
    \E initial \in PairInitialStates, max_rollback \in 0 .. PairHistory,
       pool \in PairPools :
        /\ New(initial, max_rollback)
        /\ peer = [PeerNew(initial) EXCEPT !.pool = pool]

SubmitFirst ==
    /\ calls < PairCalls
    /\ \E x \in peer.pool :
           /\ ~(x.frame \in DOMAIN submitted /\ x.id \in DOMAIN submitted[x.frame])
           /\ HandleInput(x.frame, x.id, x.input)
    /\ UNCHANGED peer

SubmitPeer ==
    /\ peer.calls < PairCalls
    /\ \E x \in peer.pool :
           /\ ~(x.frame \in DOMAIN peer.submitted
                 /\ x.id \in DOMAIN peer.submitted[x.frame])
           /\ peer' = PeerHandleInput(peer, x.frame, x.id, x.input)
    /\ UNCHANGED first

TickPair ==
    /\ current_frame_index < PairFrame
    /\ ProgressFrame
    /\ peer' = PeerProgressFrame(peer, max_history)

NextPair == SubmitFirst \/ SubmitPeer \/ TickPair

SpecPair == InitPair /\ [][NextPair]_vars

\* ------------------------------------------------------------------ claims
\* Frames the claims query get_frame_inputs at: every frame a behaviour of
\* Spec names, and one beyond.
QueryFrames == 0 .. MaxFrame + 1

Greatest(S) == CHOOSE x \in S : \A y \in S : y <= x

\* The frames in lo .. hi at which the ledger rec holds an entry of id.
EntryFrames(rec, id, lo, hi) ==
    {g \in lo .. hi : g \in DOMAIN rec /\ id \in DOMAIN rec[g]}

\* Hold-last-known-input, stated directly: each participant with an entry in
\* oldest .. f maps to its entry at the greatest such frame.
Resolved(rec, oldest, f) ==
    [id \in {i \in Participants : EntryFrames(rec, i, oldest, f) # {}} |->
        rec[Greatest(EntryFrames(rec, id, oldest, f))][id]]

Accepted == last_call.op = "handle_input" /\ last_call.result.tag = "Ok"
Rejected == last_call.op = "handle_input" /\ last_call.result.tag = "InputTooOld"

\* C1: handle_input(f, id, input) returns Ok exactly when f >= oldest_frame_index,
\* whether f is behind, at or ahead of current_frame_index; otherwise it returns
\* InputTooOld carrying f and the oldest_frame_index of the call.
C1_AcceptedIffInWindow ==
    last_call.op = "handle_input" =>
        /\ (last_call.result.tag = "Ok") <=> (last_call.frame >= oldest_frame_index)
        /\ last_call.frame < oldest_frame_index =>
               last_call.result =
                   [tag |-> "InputTooOld",
                    input_frame |-> last_call.frame,
                    oldest_valid_frame |-> oldest_frame_index]

\* A call for the oldest frame, behind the current frame, has been accepted
\* on a manager whose window has moved.
C1_Witness ==
    /\ Accepted
    /\ oldest_frame_index >= 1
    /\ last_call.frame = oldest_frame_index
    /\ last_call.frame < current_frame_index

\* C2: a handle_input call that returns InputTooOld leaves every field of the
\* manager as it was.
C2_RejectedChangesNothing ==
    [][Rejected' => UNCHANGED manager]_vars

\* A call has been rejected on a manager that holds inputs.
C2_Witness ==
    /\ Rejected
    /\ recorded_inputs # EmptyMap
    /\ last_call.frame = oldest_frame_index - 1

\* C3: oldest_frame_index = max(0, current_frame_index - max_history) in every
\* state; hence it never exceeds current_frame_index, the window never exceeds
\* max_history, and after a progress_frame call with current_frame_index >=
\* max_history the window is exactly max_history.
C3_WindowLaw ==
    /\ oldest_frame_index =
           (IF current_frame_index - max_history > 0
            THEN current_frame_index - max_history ELSE 0)
    /\ oldest_frame_index <= current_frame_index
    /\ current_frame_index - oldest_frame_index <= max_history
    /\ (last_call.op = "progress_frame" /\ current_frame_index >= max_history) =>
           current_frame_index - oldest_frame_index = max_history

\* A progress_frame call has moved the window of a manager with a nonzero
\* max_history that has received inputs.
C3_Witness ==
    /\ last_call.op = "progress_frame"
    /\ max_history >= 1
    /\ oldest_frame_index >= 1
    /\ calls >= 1

\* C4: for every frame f >= oldest_frame_index, get_frame_inputs(f) maps each
\* participant with an entry in oldest_frame_index .. f to its entry at the
\* greatest such frame, and has no key for any other participant.
C4_HoldLastInput ==
    \A f \in QueryFrames :
        f >= oldest_frame_index =>
            get_frame_inputs(f) = Resolved(recorded_inputs, oldest_frame_index, f)

\* A participant without an entry at f is given its earlier entry, while a
\* different input of its own waits at a later frame.
C4_Witness ==
    \E f \in QueryFrames, id \in Participants :
        /\ oldest_frame_index >= 1
        /\ f >= oldest_frame_index
        /\ EntryFrames(recorded_inputs, id, f, f) = {}
        /\ id \in DOMAIN get_frame_inputs(f)
        /\ \E g \in EntryFrames(recorded_inputs, id, f + 1, MaxFrame) :
               recorded_inputs[g][id] # get_frame_inputs(f)[id]

HasEntry(rec, f, id) == f \in DOMAIN rec /\ id \in DOMAIN rec[f]

\* The frames for which a submission of id has been accepted.
SubmittedFrames(id) == {g \in DOMAIN submitted : id \in DOMAIN submitted[g]}

\* C5: when a progress_frame call advances oldest_frame_index, get_frame_inputs(f)
\* is the same after the call as before it for every f at or after the new
\* oldest frame; and a participant whose only submission lies behind the
\* window is still resolved to that submission at every frame of the window
\* and beyond, however far the window has moved.
C5_CompactionKeepsHeldInputs ==
    /\ [][oldest_frame_index' > oldest_frame_index =>
             \A f \in QueryFrames :
                 f >= oldest_frame_index' =>
                     GetFrameInputs(recorded_inputs', oldest_frame_index', f)
                         = GetFrameInputs(recorded_inputs, oldest_frame_index, f)]_vars
    /\ [](\A id \in Participants, a \in Frames :
             (SubmittedFrames(id) = {a} /\ a < oldest_frame_index) =>
                 \A f \in QueryFrames :
                     f >= oldest_frame_index =>
                         /\ id \in DOMAIN get_frame_inputs(f)
                         /\ get_frame_inputs(f)[id] = submitted[a][id])

\* The window has moved two frames past a participant's only submission,
\* which is still resolved at the oldest frame.
C5_Witness ==
    \E id \in Participants, a \in Frames :
        /\ last_call.op = "progress_frame"
        /\ SubmittedFrames(id) = {a}
        /\ oldest_frame_index >= a + 2
        /\ id \in DOMAIN get_frame_inputs(oldest_frame_index)

\* The sum the test update adds for a sequence of resolved inputs.
RECURSIVE TotalOf(_)
TotalOf(seq) ==
    IF seq = << >> THEN 0
    ELSE SumValues(Head(seq), DOMAIN Head(seq)) + TotalOf(Tail(seq))

\* The resolved inputs of frames from .. to, in increasing order, on the
\* ledger rec with oldest frame oldest.
Replayed(rec, oldest, from, to) ==
    [i \in 1 .. (to - from + 1) |-> Resolved(rec, oldest, from + i - 1)]

\* C6: after every progress_frame call, current_frame_state is the new
\* stored_state with the update function applied once per frame, in increasing
\* order, for every frame from the new oldest_frame_index through the new
\* current_frame_index, each time with the inputs resolved for that frame on
\* the ledger the call found.
C6_ReplayFromCheckpoint ==
    [][current_frame_index' = current_frame_index + 1 =>
          LET replay == Replayed(recorded_inputs, oldest_frame_index,
                                 oldest_frame_index', current_frame_index')
          IN  current_frame_state' =
                  [value |-> stored_state'.value + TotalOf(replay),
                   fed   |-> stored_state'.fed \o replay]]_vars

\* A progress_frame call has replayed several frames, with inputs, on top of
\* a checkpoint that has absorbed a frame.
C6_Witness ==
    /\ last_call.op = "progress_frame"
    /\ Len(stored_state.fed) >= 1
    /\ Len(current_frame_state.fed) >= Len(stored_state.fed) + 2
    /\ current_frame_state.value > stored_state.value

\* C7: when handle_input(f, P, v) was accepted for a frame f in
\* oldest_frame_index .. current_frame_index, the next progress_frame call
\* gives the update function P -> v at frame f and at every later frame g up
\* to the current one for which P has no submission in f + 1 .. g, also when
\* that call folds frame f into the checkpoint.
C7_LateArrivalReplayed ==
    last_call.op = "progress_frame" =>
        \A s \in reconciled :
            \A g \in s.frame .. current_frame_index :
                EntryFrames(submitted, s.id, s.frame + 1, g) = {} =>
                    /\ g + 1 <= Len(current_frame_state.fed)
                    /\ s.id \in DOMAIN current_frame_state.fed[g + 1]
                    /\ current_frame_state.fed[g + 1][s.id] = submitted[s.frame][s.id]

\* An input accepted for a frame already replayed has been folded into the
\* checkpoint by the next progress_frame call and is held at the current frame.
C7_Witness ==
    /\ last_call.op = "progress_frame"
    /\ \E s \in reconciled :
           /\ s.frame >= 1
           /\ s.frame < oldest_frame_index
           /\ EntryFrames(submitted, s.id, s.frame + 1, current_frame_index) = {}
           /\ current_frame_state.fed[current_frame_index + 1][s.id]
                  = submitted[s.frame][s.id]

\* C8: an accepted handle_input call writes the entry of its (frame,
\* participant) pair and changes nothing else: not the cursors, not
\* stored_state, not current_frame_state, no other entry of the ledger.
C8_AcceptedWritesOneEntry ==
    [][Accepted' =>
          /\ UNCHANGED << max_history, oldest_frame_index, current_frame_index,
                          newest_frame_index, stored_state, current_frame_state >>
          /\ HasEntry(recorded_inputs', last_call'.frame, last_call'.id)
          /\ recorded_inputs'[last_call'.frame][last_call'.id] = last_call'.input
          /\ DOMAIN recorded_inputs' = DOMAIN recorded_inputs \cup {last_call'.frame}
          /\ \A f \in DOMAIN recorded_inputs', id \in Participants :
                 (f # last_call'.frame \/ id # last_call'.id) =>
                     /\ HasEntry(recorded_inputs', f, id) <=> HasEntry(recorded_inputs, f, id)
                     /\ HasEntry(recorded_inputs, f, id) =>
                            recorded_inputs'[f][id] = recorded_inputs[f][id]]_vars

\* An input has been accepted for an elapsed frame that holds another
\* participant's entry, and current_frame_state is no longer what a replay
\* would give.
C8_Witness ==
    /\ Accepted
    /\ last_call.frame <= current_frame_index
    /\ \E id \in Participants :
           id # last_call.id /\ HasEntry(recorded_inputs, last_call.frame, id)
    /\ current_frame_index >= 1
    /\ last_call.frame + 1 <= Len(current_frame_state.fed)
    /\ last_call.id \notin DOMAIN current_frame_state.fed[last_call.frame + 1]
    /\ current_frame_state #
           ComputeFrameState(recorded_inputs, oldest_frame_index, stored_state,
                             current_frame_index)

\* C9: when a second handle_input call is accepted for a pair (frame,
\* participant), get_frame_inputs resolves the participant to the second value
\* at that frame and at every later frame up to its next entry, frames before
\* it resolve as they did, and the other participants' entries at that frame
\* are as they were.
C9_LastWriteWins ==
    [][(Accepted' /\ HasEntry(submitted, last_call'.frame, last_call'.id)) =>
          LET f  == last_call'.frame
              id == last_call'.id
          IN  /\ \A g \in QueryFrames :
                     (g >= f /\ EntryFrames(recorded_inputs', id, f + 1, g) = {}) =>
                         /\ id \in DOMAIN GetFrameInputs(recorded_inputs', oldest_frame_index', g)
                         /\ GetFrameInputs(recorded_inputs', oldest_frame_index', g)[id]
                                = last_call'.input
              /\ \A g \in QueryFrames :
                     g < f =>
                         GetFrameInputs(recorded_inputs', oldest_frame_index', g)
                             = GetFrameInputs(recorded_inputs, oldest_frame_index, g)
              /\ \A other \in Participants \ {id} :
                     /\ HasEntry(recorded_inputs', f, other) <=> HasEntry(recorded_inputs, f, other)
                     /\ HasEntry(recorded_inputs, f, other) =>
                            recorded_inputs'[f][other] = recorded_inputs[f][other]]_vars

\* A frame was replayed with a participant's first value, the participant's
\* only submissions are for that frame, and a different value has now been
\* accepted for it, while the frame holds the other participant's submission.
C9_Witness ==
    /\ Accepted
    /\ SubmittedFrames(last_call.id) = {last_call.frame}
    /\ last_call.frame + 1 <= Len(current_frame_state.fed)
    /\ last_call.id \in DOMAIN current_frame_state.fed[last_call.frame + 1]
    /\ current_frame_state.fed[last_call.frame + 1][last_call.id] # last_call.input
    /\ get_frame_inputs(last_call.frame)[last_call.id] = last_call.input
    /\ \E other \in Participants :
           /\ other # last_call.id
           /\ HasEntry(submitted, last_call.frame, other)
           /\ HasEntry(recorded_inputs, last_call.frame, other)
           /\ recorded_inputs[last_call.frame][other] = submitted[last_call.frame][other]

\* The scenario of the test ProgressFrame_PastOldestFrame_PreservesInput:
\* window 3, start state 0, participant id submits 1 at frame 1 and 0 at
\* frame 3 before the first progress_frame call.
C10_Scenario(id) ==
    /\ max_history = 3
    /\ initial_state = 0
    /\ submitted = (1 :> (id :> 1)) @@ (3 :> (id :> 0))
    /\ current_frame_index >= 1

\* C10, as stated: in the scenario, current_frame_state is 1 after each of six
\* successive progress_frame calls.
C10_StateStaysOne ==
    \A id \in Participants :
        (C10_Scenario(id) /\ current_frame_index <= 6) =>
            current_frame_state.value = 1

\* C10, amended: in the scenario, current_frame_state is 1 after the first
\* progress_frame call and 2 after every later one.
C10_StateOneThenTwo ==
    \A id \in Participants :
        C10_Scenario(id) =>
            current_frame_state.value = (IF current_frame_index = 1 THEN 1 ELSE 2)

\* The sixth progress_frame call of the scenario has returned.
C10_Witness ==
    \E id \in Participants :
        /\ C10_Scenario(id)
        /\ current_frame_index = 6
        /\ oldest_frame_index = 3
        /\ current_frame_state.value = 2

\* The scenario of the spec's rollback example: window 4, initial state 1,
\* participant a submits 1 at frame 1 and participant b submits 2 at frame 2
\* before the first progress_frame call, and nothing else is submitted.
C11_Scenario(a, b) ==
    /\ a # b
    /\ max_history = 4
    /\ initial_state = 1
    /\ submitted = (1 :> (a :> 1)) @@ (2 :> (b :> 2))
    /\ current_frame_index \in 1 .. 3

\* C11, as stated: in the scenario, current_frame_state is 2, 5, 5 after the
\* first, second and third progress_frame call.
C11_StatesTwoFiveFive ==
    \A a, b \in Participants :
        C11_Scenario(a, b) =>
            current_frame_state.value =
                (CASE current_frame_index = 1 -> 2
                   [] current_frame_index = 2 -> 5
                   [] current_frame_index = 3 -> 5)

\* C11, amended: in the scenario, current_frame_state is 2, 5, 8 after the
\* first, second and third progress_frame call: both inputs are held at
\* frame 3.
C11_StatesTwoFiveEight ==
    \A a, b \in Participants :
        C11_Scenario(a, b) =>
            current_frame_state.value =
                (CASE current_frame_index = 1 -> 2
                   [] current_frame_index = 2 -> 5
                   [] current_frame_index = 3 -> 8)

\* The third progress_frame call of the scenario has returned.
C11_Witness ==
    \E a, b \in Participants :
        /\ C11_Scenario(a, b)
        /\ current_frame_index = 3
        /\ current_frame_state.value = 8

\* C12: stored_state is the initial state with the update function applied
\* once for each frame 0 .. oldest_frame_index - 1, in increasing order; it
\* changes only in a progress_frame call that advances oldest_frame_index, and
\* that call keeps what was folded before and applies the frames leaving the
\* window with the inputs resolved for them on the ledger the call found.
C12_CheckpointIsFoldOfCompactedFrames ==
    /\ [](/\ Len(stored_state.fed) = oldest_frame_index
          /\ stored_state.value = initial_state + TotalOf(stored_state.fed))
    /\ [][/\ stored_state' # stored_state =>
                 /\ current_frame_index' = current_frame_index + 1
                 /\ oldest_frame_index' > oldest_frame_index
          /\ oldest_frame_index' > oldest_frame_index =>
                 LET folded == Replayed(recorded_inputs, oldest_frame_index,
                                        oldest_frame_index, oldest_frame_index' - 1)
                 IN  stored_state' =
                         [value |-> stored_state.value + TotalOf(folded),
                          fed   |-> stored_state.fed \o folded]]_vars

\* Two frames have been folded into the checkpoint, one of them with inputs.
C12_Witness ==
    /\ oldest_frame_index >= 2
    /\ Len(stored_state.fed) = oldest_frame_index
    /\ stored_state.value > initial_state

\* The reference that keeps all history: the initial state with the update
\* function applied once per frame 0 .. n, each frame's inputs resolved by
\* hold-last-input over every accepted submission, with no checkpoint.
Reference(n) ==
    LET all == Replayed(submitted, 0, 0, n)
    IN  [value |-> initial_state + TotalOf(all), fed |-> all]

\* C13: after every progress_frame call, current_frame_state equals the state
\* of the reference that keeps all history, at the current frame.
C13_WindowEqualsReference ==
    last_call.op = "progress_frame" =>
        current_frame_state = Reference(current_frame_index)

\* The window has left behind the only submission of a participant, accepted
\* for a frame that had already been replayed, and the input is still applied
\* at the current frame.
C13_Witness ==
    /\ last_call.op = "progress_frame"
    /\ \E id \in Participants :
           /\ SubmittedFrames(id) # {}
           /\ \A g \in SubmittedFrames(id) : g < oldest_frame_index
           /\ \E s \in reconciled : s.id = id /\ s.frame >= 1
           /\ id \in DOMAIN current_frame_state.fed[current_frame_index + 1]

\* Both managers of SpecPair have just returned from their n-th progress_frame
\* call, n = current_frame_index.
BothTicked == last_call.op = "progress_frame" /\ peer.fresh

\* C14: two managers constructed alike that had accepted the same submissions
\* before their n-th progress_frame call, whatever the order and the moments
\* in which each received them, have the same stored_state, oldest_frame_index
\* and current_frame_state after that call.
C14_SameSubmissionsSameStates ==
    (BothTicked /\ submitted = peer.submitted) =>
        /\ stored_state = peer.stored_state
        /\ oldest_frame_index = peer.oldest_frame_index
        /\ current_frame_state = peer.current_frame_state

\* The two managers received two submissions in opposite orders and at
\* different ticks: the first manager received s last, after its frame had
\* been replayed, the second received s first, and frames have been folded
\* into the checkpoints.
C14_Witness ==
    /\ BothTicked
    /\ submitted = peer.submitted
    /\ oldest_frame_index >= 1
    /\ \E s \in reconciled, t \in peer.pool :
           /\ HasEntry(submitted, t.frame, t.id)
           /\ [frame |-> t.frame, id |-> t.id] \notin reconciled
           /\ peer.arrival[s.frame][s.id] < current_frame_index - 1
           /\ peer.arrival[t.frame][t.id] > peer.arrival[s.frame][s.id]

\* C15: every progress_frame call increases current_frame_index by exactly 1
\* and oldest_frame_index by 0 or 1; handle_input changes neither cursor;
\* oldest_frame_index never decreases, so a frame whose submission would be
\* rejected before a step would be rejected after it; and a submission for f is
\* rejected exactly when current_frame_index > f + max_history.
C15_CursorsMonotone ==
    /\ [][/\ last_call'.op = "progress_frame" =>
                 /\ current_frame_index' = current_frame_index + 1
                 /\ oldest_frame_index' \in {oldest_frame_index, oldest_frame_index + 1}
          /\ last_call'.op = "handle_input" =>
                 UNCHANGED << current_frame_index, oldest_frame_index >>
          /\ oldest_frame_index' >= oldest_frame_index
          /\ \A f \in Frames :
                 HandleInputResult(oldest_frame_index, f).tag = "InputTooOld" =>
                     HandleInputResult(oldest_frame_index', f).tag = "InputTooOld"]_vars
    /\ [](last_call.op = "handle_input" =>
             (Rejected <=> current_frame_index > last_call.frame + max_history))

\* Two calls have been made and both rejected, the second for the frame that
\* has just left a window of at least one frame.
C15_Witness ==
    /\ Rejected
    /\ calls >= 2
    /\ submitted = EmptyMap
    /\ max_history >= 1
    /\ current_frame_index = last_call.frame + max_history + 1

\* C16: current_frame_state is the unmodified initial state until the first
\* progress_frame call; after the n-th call the update function has been
\* applied n + 1 times to reach current_frame_state, the first
\* oldest_frame_index of those applications being the ones folded into
\* stored_state and the others the replay of frames oldest_frame_index .. n,
\* one per frame in increasing order, for every max_history including 0.
C16_EveryFrameAppliedOnce ==
    /\ current_frame_index = 0 =>
           /\ current_frame_state = NewState(initial_state)
           /\ stored_state = NewState(initial_state)
    /\ current_frame_index >= 1 =>
           /\ Len(current_frame_state.fed) = current_frame_index + 1
           /\ Len(stored_state.fed) = oldest_frame_index
           /\ SubSeq(current_frame_state.fed, 1, oldest_frame_index) = stored_state.fed
    /\ last_call.op = "progress_frame" =>
           \A g \in oldest_frame_index .. current_frame_index :
               current_frame_state.fed[g + 1] = get_frame_inputs(g)

\* A manager with max_history 0 that has received inputs has folded a frame
\* into the checkpoint in each of several progress_frame calls.
C16_Witness ==
    /\ last_call.op = "progress_frame"
    /\ max_history = 0
    /\ current_frame_index >= 2
    /\ oldest_frame_index = current_frame_index
    /\ recorded_inputs # EmptyMap
    /\ Len(current_frame_state.fed) = current_frame_index + 1

\* The accepted submissions sub for frames up to n.
UpTo(sub, n) == [f \in {g \in DOMAIN sub : g <= n} |-> sub[f]]

\* C17: a submission for a frame f > current_frame_index is accepted and stored
\* in the ledger as submitted; and two managers constructed alike whose
\* accepted submissions differ only at frames beyond current_frame_index have
\* the same stored_state and the same current_frame_state after each
\* progress_frame call.
C17_FutureInputsNotAppliedEarly ==
    /\ (last_call.op = "handle_input" /\ last_call.frame > current_frame_index) =>
           Accepted
    /\ \A f \in DOMAIN submitted :
           f > current_frame_index =>
               /\ f \in DOMAIN recorded_inputs
               /\ recorded_inputs[f] = submitted[f]
    /\ (/\ BothTicked
        /\ UpTo(submitted, current_frame_index)
               = UpTo(peer.submitted, peer.current_frame_index)) =>
           /\ stored_state = peer.stored_state
           /\ current_frame_state = peer.current_frame_state

\* After a progress_frame call that replayed inputs, the first manager holds a
\* submission for a frame not yet reached which the second manager has not
\* received, and nothing else distinguishes what the two accepted.
C17_Witness ==
    /\ BothTicked
    /\ current_frame_index >= 1
    /\ UpTo(submitted, current_frame_index)
           = UpTo(peer.submitted, peer.current_frame_index)
    /\ UpTo(submitted, current_frame_index) # EmptyMap
    /\ \E f \in DOMAIN recorded_inputs, id \in Participants :
           /\ f > current_frame_index
           /\ HasEntry(submitted, f, id)
           /\ HasEntry(recorded_inputs, f, id)
           /\ ~HasEntry(peer.submitted, f, id)

\* The ledger rec without its entries at frames below oldest.
WithoutCompacted(rec, oldest) == [f \in {g \in DOMAIN rec : g >= oldest} |-> rec[f]]

\* C18: no step removes a frame key or a (frame, participant) entry from
\* recorded_inputs; the value of an entry changes only in an accepted
\* handle_input call for its pair; an entry that a progress_frame call adds is
\* at the new oldest frame and carries the participant's value from the
\* previous oldest frame; every accepted submission is in the ledger with the
\* value last submitted; and get_frame_inputs and the replay give the same
\* results on the ledger without its entries below oldest_frame_index.
C18_LedgerNeverPruned ==
    /\ [][/\ DOMAIN recorded_inputs \subseteq DOMAIN recorded_inputs'
          /\ \A f \in DOMAIN recorded_inputs : \A id \in DOMAIN recorded_inputs[f] :
                 /\ HasEntry(recorded_inputs', f, id)
                 /\ recorded_inputs'[f][id] # recorded_inputs[f][id] =>
                        /\ Accepted'
                        /\ last_call'.frame = f
                        /\ last_call'.id = id
          /\ last_call'.op = "progress_frame" =>
                 \A f \in DOMAIN recorded_inputs' : \A id \in DOMAIN recorded_inputs'[f] :
                     ~HasEntry(recorded_inputs, f, id) =>
                         /\ oldest_frame_index' > oldest_frame_index
                         /\ f = oldest_frame_index'
                         /\ HasEntry(recorded_inputs, oldest_frame_index, id)
                         /\ recorded_inputs'[f][id]
                                = recorded_inputs[oldest_frame_index][id]]_vars
    /\ [](/\ \A f \in DOMAIN submitted : \A id \in DOMAIN submitted[f] :
                 /\ HasEntry(recorded_inputs, f, id)
                 /\ recorded_inputs[f][id] = submitted[f][id]
          /\ \A f \in QueryFrames :
                 f >= oldest_frame_index =>
                     get_frame_inputs(f) =
                         GetFrameInputs(WithoutCompacted(recorded_inputs, oldest_frame_index),
                                        oldest_frame_index, f)
          /\ ComputeFrameState(recorded_inputs, oldest_frame_index, stored_state,
                               current_frame_index)
                 = ComputeFrameState(WithoutCompacted(recorded_inputs, oldest_frame_index),
                                     oldest_frame_index, stored_state,
                                     current_frame_index))

\* The window has moved two frames past a participant's entry at frame 0,
\* which is still in the ledger; the entry at the oldest frame holds that
\* participant's carried input next to another participant's submission.
C18_Witness ==
    \E id, other \in Participants :
        /\ oldest_frame_index >= 2
        /\ HasEntry(recorded_inputs, 0, id)
        /\ HasEntry(recorded_inputs, oldest_frame_index, id)
        /\ ~HasEntry(submitted, oldest_frame_index, id)
        /\ other # id
        /\ HasEntry(submitted, oldest_frame_index, other)
        /\ recorded_inputs[oldest_frame_index][other]
               = submitted[oldest_frame_index][other]

\* C19: newest_frame_index is 0 in every reachable state, whatever frames
\* have been submitted or reached.
C19_NewestFrameIndexStaysZero == newest_frame_index = 0

\* progress_frame has been called several times on a manager whose ledger
\* holds an input for a frame not yet reached, and newest_frame_index is 0.
C19_Witness ==
    /\ newest_frame_index = 0
    /\ last_call.op = "progress_frame"
    /\ current_frame_index >= 2
    /\ oldest_frame_index >= 1
    /\ \E f \in DOMAIN recorded_inputs : f > current_frame_index

====
